---- MODULE Spec2Model ----
(***************************************************************************)
(* Model of app.py: add_signals, backtest, tune_parameters and the part of *)
(* the script that chains them (tune, then add_signals with the best       *)
(* parameters, then backtest).                                             *)
(*                                                                         *)
(* Numbers.  Every value of a float column is a float64, and the model     *)
(* computes with float64: a value is                                       *)
(*   [k |-> "num", s, m, e]  the double s * m * 2^e (0.0 and -0.0 are two) *)
(*   NaN                     a missing value (pandas NaN)                  *)
(*   PosInf, NegInf          np.inf, -np.inf                               *)
(* and +, -, *, / round to nearest, ties to even, as IEEE 754 does, so that*)
(* two products that are equal as real numbers but differ in the last bit  *)
(* compare as they do in the program.  Mantissas do not fit the integers   *)
(* of TLC, so they are kept as digit sequences.                            *)
(*                                                                         *)
(* np.exp is not correctly rounded and differs between builds (the libm,   *)
(* numpy's own vector kernels): it returns one of the two doubles next to  *)
(* e^x.  Which one is a property of the build: the variable np_exp holds   *)
(* the value np.exp has returned for each argument it has been given,      *)
(* chosen when the argument is first met and kept from then on.            *)
(***************************************************************************)
EXTENDS Integers, Sequences, FiniteSets, TLC

\* ------------------------------------------------------------------ bounds
MaxLen == 3
MaxWindow == 3

Windows == 0..MaxWindow

\* ------------------------------------------------ natural numbers in limbs
\* A natural number is the sequence of its base-2^14 digits, least
\* significant first, without leading zero digits; <<>> is 0.  A product of
\* two digits, and a sum of seven of them, fits an integer of TLC.
DigitBits == 14
Base == 16384

Limb(a, i) == IF i <= Len(a) THEN a[i] ELSE 0

\* 2^r for r in 0..DigitBits
Pow2(r) == <<1, 2, 4, 8, 16, 32, 64, 128, 256, 512, 1024, 2048, 4096, 8192, 16384>>[r + 1]

\* the number of bits of a digit
IntBitLen(n) ==
    IF n >= 128
    THEN IF n >= 2048 THEN (IF n >= 8192 THEN 14 ELSE IF n >= 4096 THEN 13 ELSE 12)
         ELSE IF n >= 512 THEN (IF n >= 1024 THEN 11 ELSE 10)
         ELSE IF n >= 256 THEN 9 ELSE 8
    ELSE IF n >= 8 THEN (IF n >= 32 THEN (IF n >= 64 THEN 7 ELSE 6) ELSE IF n >= 16 THEN 5 ELSE 4)
         ELSE IF n >= 2 THEN (IF n >= 4 THEN 3 ELSE 2)
         ELSE n

RECURSIVE BTrim(_)
BTrim(a) == IF Len(a) > 0 /\ a[Len(a)] = 0 THEN BTrim(SubSeq(a, 1, Len(a) - 1)) ELSE a

RECURSIVE BFromInt(_)
BFromInt(n) == IF n = 0 THEN <<>> ELSE <<n % Base>> \o BFromInt(n \div Base)

Zeros(k) == [i \in 1..k |-> 0]

RECURSIVE BAddAt(_, _, _, _)
BAddAt(a, b, i, c) ==
    IF i > Len(a) /\ i > Len(b) THEN (IF c = 0 THEN <<>> ELSE <<c>>)
    ELSE LET s == Limb(a, i) + Limb(b, i) + c
         IN <<s % Base>> \o BAddAt(a, b, i + 1, s \div Base)
BAdd(a, b) == BAddAt(a, b, 1, 0)

\* a - b for a >= b
RECURSIVE BSubAt(_, _, _, _)
BSubAt(a, b, i, br) ==
    IF i > Len(a) THEN <<>>
    ELSE LET s == a[i] - Limb(b, i) - br
         IN <<IF s < 0 THEN s + Base ELSE s>> \o BSubAt(a, b, i + 1, IF s < 0 THEN 1 ELSE 0)
BSub(a, b) == BTrim(BSubAt(a, b, 1, 0))

RECURSIVE BCmpAt(_, _, _)
BCmpAt(a, b, i) ==
    IF i = 0 THEN 0
    ELSE IF a[i] # b[i] THEN (IF a[i] > b[i] THEN 1 ELSE -1)
    ELSE BCmpAt(a, b, i - 1)
BCmp(a, b) ==
    IF Len(a) # Len(b) THEN (IF Len(a) > Len(b) THEN 1 ELSE -1) ELSE BCmpAt(a, b, Len(a))

\* a * d for one digit d
RECURSIVE BMulLimbAt(_, _, _, _)
BMulLimbAt(a, d, i, c) ==
    IF i > Len(a) THEN (IF c = 0 THEN <<>> ELSE <<c>>)
    ELSE LET p == a[i] * d + c
         IN <<p % Base>> \o BMulLimbAt(a, d, i + 1, p \div Base)
BMulLimb(a, d) == IF d = 0 THEN <<>> ELSE BMulLimbAt(a, d, 1, 0)

\* a * b, digit k of the product from the sum of the digit products of
\* column k (at most seven of them) and the carry
RECURSIVE ColSum(_, _, _, _, _)
ColSum(a, b, k, i, hi) ==
    IF i > hi THEN 0 ELSE a[i] * b[k + 1 - i] + ColSum(a, b, k, i + 1, hi)
RECURSIVE BMulAt(_, _, _, _)
BMulAt(a, b, k, c) ==
    IF k > Len(a) + Len(b) THEN <<>>
    ELSE LET s == c + ColSum(a, b, k, IF k > Len(b) THEN k + 1 - Len(b) ELSE 1,
                             IF k < Len(a) THEN k ELSE Len(a))
         IN <<s % Base>> \o BMulAt(a, b, k + 1, s \div Base)
BMul(a, b) == BTrim(BMulAt(a, b, 1, 0))

\* a * 2^n and floor(a / 2^n)
BShl(a, n) ==
    IF Len(a) = 0 \/ n = 0 THEN a
    ELSE Zeros(n \div DigitBits) \o BMulLimb(a, Pow2(n % DigitBits))
BShr(a, n) ==
    LET k == n \div DigitBits
        p == Pow2(n % DigitBits)
        t == IF k >= Len(a) THEN <<>> ELSE SubSeq(a, k + 1, Len(a))
    IN BTrim([i \in 1..Len(t) |-> (t[i] \div p) + (Limb(t, i + 1) % p) * (Base \div p)])

\* a without its n lowest digits
BDropDigits(a, n) == IF Len(a) <= n THEN <<>> ELSE SubSeq(a, n + 1, Len(a))

\* some bit of a below bit n is set
BLow(a, n) ==
    \/ \E i \in 1..(n \div DigitBits) : Limb(a, i) # 0
    \/ Limb(a, (n \div DigitBits) + 1) % Pow2(n % DigitBits) # 0
BBit(a, n) == (Limb(a, (n \div DigitBits) + 1) \div Pow2(n % DigitBits)) % 2
BitLen(a) == IF Len(a) = 0 THEN 0 ELSE DigitBits * (Len(a) - 1) + IntBitLen(a[Len(a)])

\* floor(a / n) for a small n (n * Base fits an int)
RECURSIVE BDivSmallAt(_, _, _, _)
BDivSmallAt(a, n, i, r) ==
    IF i = 0 THEN <<>>
    ELSE LET u == r * Base + a[i]
         IN BDivSmallAt(a, n, i - 1, u % n) \o <<u \div n>>
BDivSmall(a, n) == BTrim(BDivSmallAt(a, n, Len(a), 0))

\* ------------------------------------------------------------- float64
\* A finite double is s * m * 2^e with s in {1,-1} and
\*   m a 53-bit natural (2^52 <= m < 2^53) and MinExp <= e <= MaxExp, or
\*   m below 2^52 and e = MinExp (a subnormal), or
\*   m = <<>> and e = 0 (0.0 for s = 1, -0.0 for s = -1; they compare equal).
MinExp == -1074
MaxExp == 971

Zero == [k |-> "num", s |-> 1, m |-> <<>>, e |-> 0]
NegZero == [k |-> "num", s |-> -1, m |-> <<>>, e |-> 0]
NaN == [k |-> "nan", s |-> 1, m |-> <<>>, e |-> 0]
PosInf == [k |-> "inf", s |-> 1, m |-> <<>>, e |-> 0]
NegInf == [k |-> "inf", s |-> -1, m |-> <<>>, e |-> 0]

\* 1.0 = 2^52 * 2^-52, and the mantissa 2^52 of every power of two
MantissaOne == <<0, 0, 0, 1024>>
One == [k |-> "num", s |-> 1, m |-> MantissaOne, e |-> -52]

IsNum(x) == x.k = "num"
IsNaN(x) == x.k = "nan"
IsInf(x) == x.k = "inf"
IsZero(x) == x.k = "num" /\ Len(x.m) = 0

\* the zero and the infinity of sign s
SignedZero(s) == IF s = 1 THEN Zero ELSE NegZero
SignedInf(s) == IF s = 1 THEN PosInf ELSE NegInf

\* s * m * 2^e for a mantissa m that fits: infinity above the range, a zero
\* of sign s for m = 0
Finite(s, m, e) ==
    IF Len(m) = 0 THEN SignedZero(s)
    ELSE IF e > MaxExp THEN SignedInf(s)
    ELSE [k |-> "num", s |-> s, m |-> m, e |-> e]

\* s * r * 2^e for a rounded mantissa r of at most 53 bits, or of 54
\* (r = 2^53, after a carry out of the top bit)
Normal(s, r, e) == IF BitLen(r) = 54 THEN Finite(s, BShr(r, 1), e + 1) ELSE Finite(s, r, e)

\* The exponent of the double that holds a number of len bits with lowest
\* bit 2^e: len - 53 places up, but not below the subnormals.
Target(e, len) == IF e + len - 53 < MinExp THEN MinExp ELSE e + len - 53

\* n, with sticky, cut sh bits from the bottom is increased by one:
\* "nearest" when the part cut is above half, or is half and the last bit
\* kept is odd; "up" when the part cut is not zero; "down" never.
CarryIn(n, sh, sticky, mode) ==
    IF mode = "nearest"
    THEN BBit(n, sh - 1) = 1 /\ (sticky \/ BLow(n, sh - 1) \/ BBit(n, sh) = 1)
    ELSE mode = "up" /\ (sticky \/ BLow(n, sh))

\* s * n * 2^e (plus a little when sticky), n # 0, as the double of exponent
\* t (t = Target(e, BitLen(n)))
RoundTo(s, n, e, sticky, mode, t) ==
    IF t <= e
    THEN Normal(s, IF mode = "up" /\ sticky THEN BAdd(BShl(n, e - t), <<1>>) ELSE BShl(n, e - t), t)
    ELSE Normal(s, IF CarryIn(n, t - e, sticky, mode) THEN BAdd(BShr(n, t - e), <<1>>)
                   ELSE BShr(n, t - e), t)

\* s * n * 2^e (plus a little when sticky) rounded to a double by mode; an
\* exact 0 is 0.0
RoundMode(s, n, e, sticky, mode) ==
    IF Len(n) = 0 THEN Zero ELSE RoundTo(s, n, e, sticky, mode, Target(e, BitLen(n)))

\* rounded to nearest, ties to even
Round(s, n, e, sticky) == RoundMode(s, n, e, sticky, "nearest")

FromInt(i) == Round(IF i < 0 THEN -1 ELSE 1, BFromInt(IF i < 0 THEN -i ELSE i), 0, FALSE)

Neg(x) == IF IsNaN(x) THEN x ELSE [x EXCEPT !.s = -x.s]

\* -1, 0, 1 for two numbers or infinities
Sgn(x) == IF IsZero(x) THEN 0 ELSE x.s
CmpMag(x, y) ==
    IF IsInf(x) \/ IsInf(y) THEN (IF IsInf(x) /\ IsInf(y) THEN 0 ELSE IF IsInf(x) THEN 1 ELSE -1)
    ELSE IF x.e # y.e THEN (IF x.e > y.e THEN 1 ELSE -1)
    ELSE BCmp(x.m, y.m)
Cmp(x, y) ==
    IF Sgn(x) # Sgn(y) THEN (IF Sgn(x) > Sgn(y) THEN 1 ELSE -1)
    ELSE IF Sgn(x) = 0 THEN 0
    ELSE Sgn(x) * CmpMag(x, y)

\* x > y, x >= y as floats compare: False when either is NaN
Gt(x, y) == ~IsNaN(x) /\ ~IsNaN(y) /\ Cmp(x, y) = 1
Ge(x, y) == ~IsNaN(x) /\ ~IsNaN(y) /\ Cmp(x, y) >= 0

\* (a factor that is a power of two leaves the digits of the other as they
\* are)
Mul(x, y) ==
    IF IsNum(x) /\ IsNum(y)
    THEN IF IsZero(x) \/ IsZero(y) THEN SignedZero(x.s * y.s)
         ELSE Round(x.s * y.s,
                    IF x.m = MantissaOne THEN y.m
                    ELSE IF y.m = MantissaOne THEN x.m ELSE BMul(x.m, y.m),
                    IF x.m = MantissaOne \/ y.m = MantissaOne THEN x.e + y.e + 52 ELSE x.e + y.e,
                    FALSE)
    ELSE IF IsNaN(x) \/ IsNaN(y) \/ IsZero(x) \/ IsZero(y) THEN NaN
    ELSE SignedInf(x.s * y.s)

\* sa * a * 2^e + sb * b * 2^e for naturals a, b
AddAligned(sa, a, sb, b, e, sticky) ==
    Round(IF sa = sb \/ BCmp(a, b) >= 0 THEN sa ELSE sb,
          IF sa = sb THEN BAdd(a, b) ELSE IF BCmp(a, b) >= 0 THEN BSub(a, b) ELSE BSub(b, a),
          e, sticky)

\* x + y for numbers x, y with x.e >= y.e, neither zero.  A y more than 60
\* binary places below x only tips the rounding: it counts as one unit two
\* places below x and a sticky rest.
AddOrdered(x, y) ==
    IF x.e - y.e > 60
    THEN AddAligned(x.s, BShl(x.m, 2), y.s, <<1>>, x.e - 2, TRUE)
    ELSE AddAligned(x.s, BShl(x.m, x.e - y.e), y.s, y.m, y.e, FALSE)

\* (0.0 + -0.0 is 0.0, -0.0 + -0.0 is -0.0, x + -x is 0.0)
Add(x, y) ==
    IF IsNum(x) /\ IsNum(y)
    THEN IF IsZero(x) /\ IsZero(y) THEN (IF x.s = y.s THEN x ELSE Zero)
         ELSE IF IsZero(x) THEN y
         ELSE IF IsZero(y) THEN x
         ELSE AddOrdered(IF x.e >= y.e THEN x ELSE y, IF x.e >= y.e THEN y ELSE x)
    ELSE IF IsNaN(x) \/ IsNaN(y) THEN NaN
    ELSE IF IsInf(x) /\ IsInf(y) THEN (IF x.s = y.s THEN x ELSE NaN)
    ELSE IF IsInf(x) THEN x ELSE y

Sub(x, y) == Add(x, Neg(y))

\* One digit of a long division: the greatest q with q * b <= u, where
\* u < b * Base and the top digit of the 4-digit b is at least Base/2.
RECURSIVE FixDigit(_, _, _)
FixDigit(u, b, q) == IF BCmp(BMulLimb(b, q), u) > 0 THEN FixDigit(u, b, q - 1) ELSE q
DivDigit(u, b) ==
    LET t == (Limb(u, 5) * Base + Limb(u, 4)) \div b[4]
    IN FixDigit(u, b, IF t > Base - 1 THEN Base - 1 ELSE t)

\* floor(r * Base^n / b) as n digits (most significant last in the result),
\* and the final remainder; r < b.
RECURSIVE DivDigits(_, _, _)
DivDigits(r, b, n) ==
    IF n = 0 THEN [q |-> <<>>, r |-> r]
    ELSE LET u == IF Len(r) = 0 THEN <<>> ELSE <<0>> \o r
             d == DivDigit(u, b)
             rest == DivDigits(BSub(u, BMulLimb(b, d)), b, n - 1)
         IN [q |-> rest.q \o <<d>>, r |-> rest.r]

\* s * (top + f.q / Base^4) * 2^(e + 56), f the fraction digits and the
\* remainder of the division
DivRound(s, top, f, e) == Round(s, BTrim(f.q \o <<top>>), e, Len(f.r) # 0)

\* s * a / b * 2^(e + 56) for 56-bit a, b (a / b is in (1/2, 2))
DivMantissa(s, a, b, e) ==
    DivRound(s, IF BCmp(a, b) >= 0 THEN 1 ELSE 0,
             DivDigits(IF BCmp(a, b) >= 0 THEN BSub(a, b) ELSE a, b, 4), e)

\* the binary places a mantissa is short of 53 bits (0 but for a subnormal)
Short(m) == 53 - BitLen(m)

Div(x, y) ==
    IF IsNum(x) /\ IsNum(y)
    THEN IF IsZero(y)
         THEN IF IsZero(x) THEN NaN ELSE SignedInf(x.s * y.s)
         ELSE IF IsZero(x) THEN SignedZero(x.s * y.s)
         ELSE DivMantissa(x.s * y.s, BShl(x.m, 3 + Short(x.m)), BShl(y.m, 3 + Short(y.m)),
                          (x.e - Short(x.m)) - (y.e - Short(y.m)) - 56)
    ELSE IF IsNaN(x) \/ IsNaN(y) \/ (IsInf(x) /\ IsInf(y)) THEN NaN
    ELSE IF IsInf(x) THEN SignedInf(x.s * y.s)
    ELSE SignedZero(x.s * y.s)

\* ------------------------------------------------------------------ np.exp
\* e^x in fixed point with ExpBits fractional bits (ExpDigits digits)
ExpBits == 154
ExpDigits == 11

\* floor(ln 2 * 2^ExpBits)
Ln2 == <<3340, 13327, 15787, 1010, 3680, 7739, 10994, 3961, 8007, 8575, 11356>>

\* 2^ExpBits, the 1 of the series
ExpOne == Zeros(ExpDigits) \o <<1>>

\* a * b for a b of up to 14 digits: by the low seven digits of b and by
\* the rest
BMulWide(a, b) ==
    IF Len(b) <= 7 THEN BMul(a, b)
    ELSE BAdd(BMul(a, BTrim(SubSeq(b, 1, 7))), BShl(BMul(a, BDropDigits(b, 7)), 7 * DigitBits))

\* exp(r / 2^ExpBits) * 2^ExpBits for 0 <= r < ln 2 * 2^ExpBits: the Taylor
\* series, summed until a term no longer changes the sum; term is
\* r^(n-1)/(n-1)!, t is r^n/n!, sum is acc + t.
RECURSIVE ExpSeries(_, _, _, _)
RECURSIVE ExpTerm(_, _, _, _)
RECURSIVE ExpSum(_, _, _, _, _)
ExpSeries(r, n, term, acc) ==
    ExpTerm(r, n, BDivSmall(BDropDigits(BMulWide(term, r), ExpDigits), n), acc)
ExpTerm(r, n, t, acc) == ExpSum(r, n, t, acc, BAdd(acc, t))
ExpSum(r, n, t, acc, sum) == IF sum = acc THEN acc ELSE ExpSeries(r, n + 1, t, sum)

\* floor(xs / Ln2) for xs = |x| * 2^ExpBits, |x| < 1024
RECURSIVE FixDown(_, _)
FixDown(xs, q) == IF BCmp(BMulLimb(Ln2, q), xs) > 0 THEN FixDown(xs, q - 1) ELSE q
RECURSIVE FixUp(_, _)
FixUp(xs, q) == IF BCmp(BMulLimb(Ln2, q + 1), xs) <= 0 THEN FixUp(xs, q + 1) ELSE q
Ln2Quotient(xs) ==
    LET xi == BShr(xs, ExpBits - 10)
        est == ((Limb(xi, 1) + Base * Limb(xi, 2)) * 1477) \div 1048576
    IN FixUp(xs, FixDown(xs, est))

\* e^(s * xs / 2^ExpBits) for xs > 0 with q = floor(xs / Ln2): 2^q * e^r for
\* s = 1 and 2^-(q+1) * e^r for s = -1, r the rest of the reduction (in
\* [0, ln 2)), rounded by mode.  (e^x is no double unless x = 0: sticky.)
ExpReduced(s, xs, q, mode) ==
    RoundMode(1,
              ExpSeries(IF s = 1 THEN BSub(xs, BMulLimb(Ln2, q))
                                 ELSE BSub(BMulLimb(Ln2, q + 1), xs),
                        1, ExpOne, ExpOne),
              (IF s = 1 THEN q ELSE -(q + 1)) - ExpBits, TRUE, mode)

ExpScaled(s, xs, mode) == ExpReduced(s, xs, Ln2Quotient(xs), mode)

\* The doubles next to 1.0: 1 + 2^-52 and 1 - 2^-53
AboveOne == [k |-> "num", s |-> 1, m |-> <<1, 0, 0, 1024>>, e |-> -52]
BelowOne == [k |-> "num", s |-> 1, m |-> <<16383, 16383, 16383, 2047>>, e |-> -53]

\* e^x rounded by mode ("nearest", "down", "up") for 0 < |x| < 2^-54: e^x is
\* between 1.0 and the double next to it on the side of x
ExpNearOne(s, mode) ==
    IF mode = "nearest" \/ mode = (IF s = 1 THEN "down" ELSE "up") THEN One
    ELSE IF s = 1 THEN AboveOne ELSE BelowOne

\* e^x rounded by mode.  e^0 is 1.0, whatever the mode; |x| >= 1024 is 0
\* below the float64 range and inf above it.
ExpRounded(x, mode) ==
    IF ~IsNum(x) THEN (IF IsNaN(x) THEN NaN ELSE IF x.s = 1 THEN PosInf ELSE Zero)
    ELSE IF IsZero(x) THEN One
    ELSE IF x.e + BitLen(x.m) > 10 THEN (IF x.s = 1 THEN PosInf ELSE Zero)
    ELSE IF x.e + BitLen(x.m) <= -54 THEN ExpNearOne(x.s, mode)
    ELSE ExpScaled(x.s, BShl(x.m, x.e + ExpBits), mode)

\* The values np.exp(x) can have: np.exp is accurate to less than one unit
\* in the last place, so it returns the double below e^x or the double above
\* it (the same double where e^x is a double: x = 0, the infinities, NaN).
\* Which of the two depends on the build (libm, vector kernel).
ExpBelow(x) == ExpRounded(x, "down")
ExpAbove(x) == ExpRounded(x, "up")
ExpOutcomes(x) == {ExpBelow(x), ExpAbove(x)}

\* the double nearest to p/q, as Python reads the literal
FromRatio(p, q) == Div(FromInt(p), FromInt(q))
Quarter == FromRatio(1, 4)
Half == FromRatio(1, 2)
ThreeQuarters == FromRatio(3, 4)

\* x < y as floats compare
Lt(x, y) == Gt(y, x)

\* Prices of the input series (all positive, as Binance closes are): 3.0,
\* 9.0, 10.0
Prices == {FromInt(3), FromInt(9), FromInt(10)}

\* Thresholds 0.25, 0.5, 0.75
Thresholds == {Quarter, Half, ThreeQuarters}

\* -10 * m, the argument np.exp is given at lines 38 and 75
ExpArg(m) == Mul(FromInt(-10), m)

\* 1 / (1 + y), y the value of np.exp
Logistic(y) == Div(One, Add(One, y))

\* 1 / (1 + np.exp(-10 * m)), line 38, for a momentum m without NaN; exp is
\* the function np.exp of the build, defined on -10 * m at least
Sigmoid10(exp, m) == Logistic(exp[ExpArg(m)])

\* price / earlier - 1, the element of Series.pct_change
Change(price, earlier) == Sub(Div(price, earlier), One)

\* table[x] where the table has it, otherwise value
Lookup(table, x, value) == IF x \in DOMAIN table THEN table[x] ELSE value

\* Change, ExpArg, ExpOutcomes and Logistic over the prices of the bounded
\* series, computed once.
ChangeOf == [pq \in Prices \X Prices |-> Change(pq[1], pq[2])]
Momenta == {Change(p, q) : p, q \in Prices}
ExpArgOf == [m \in Momenta |-> ExpArg(m)]
ExpOutcomesOf == [x \in {ExpArg(m) : m \in Momenta} |-> ExpOutcomes(x)]
LogisticOf == [y \in UNION {ExpOutcomes(ExpArg(m)) : m \in Momenta} |-> Logistic(y)]

\* The ways a build's np.exp can answer on the arguments args: a value of
\* ExpOutcomes for each.
Answers(args) ==
    {f \in [args -> UNION {Lookup(ExpOutcomesOf, x, ExpOutcomes(x)) : x \in args}] :
        \A x \in args : f[x] \in Lookup(ExpOutcomesOf, x, ExpOutcomes(x))}

\* np.exp as far as it has been called (known), and then on args as well:
\* the values it has given stay, the new arguments get theirs.
Extend(known, args) == {f @@ known : f \in Answers(args \ DOMAIN known)}

\* ------------------------------------------------------------ data frames
\* A DataFrame is a record of columns; a column is a sequence over 1..Len.
\* Index i of the model is row i-1 of the frame.
Nil == [none |-> TRUE]

\* d[name] = col
Assign(d, name, col) == [c \in DOMAIN d \cup {name} |-> IF c = name THEN col ELSE d[c]]

\* Faulty variant of CopyThenAssign: no copy, the columns land in the caller's frame.
AssignInPlace(d, out) == [arg |-> out, ret |-> out]

\* df = df.copy() followed by column assignments that lead to the frame out
\* (lines 35, 47, 73): the caller's frame arg is left as it was.
CopyThenAssign(d, out) == [arg |-> d, ret |-> out]

\* Series.shift(k): the value k rows earlier, NaN where there is none.
Shift(col, k) ==
    [i \in 1..Len(col) |-> IF i - k \in 1..Len(col) THEN col[i - k] ELSE NaN]

\* Faulty variant of PctChange: the ratio, without the - 1.
PctChangeRatio(price, periods) ==
    [i \in 1..Len(price) |->
        IF i - periods \in 1..Len(price)
        THEN Div(price[i], price[i - periods])
        ELSE NaN]

\* Series.pct_change(periods): price[i]/price[i-periods] - 1, NaN where the
\* earlier row does not exist.
PctChange(price, periods) ==
    [i \in 1..Len(price) |->
        IF i - periods \in 1..Len(price)
        THEN Lookup(ChangeOf, <<price[i], price[i - periods]>>,
                    Change(price[i], price[i - periods]))
        ELSE NaN]

\* Faulty variant of FillNa0: fillna(1).
FillNaOne(col) == [i \in 1..Len(col) |-> IF IsNaN(col[i]) THEN One ELSE col[i]]

\* Series.fillna(0)
FillNa0(col) == [i \in 1..Len(col) |-> IF IsNaN(col[i]) THEN Zero ELSE col[i]]

\* 1 / (1 + np.exp(-10 * m)) for a column m
Sigmoid10Column(exp, m) ==
    [i \in 1..Len(m) |->
        Lookup(LogisticOf, exp[Lookup(ExpArgOf, m[i], ExpArg(m[i]))], Sigmoid10(exp, m[i]))]

\* The arguments np.exp is given for a column m
ExpArgsColumn(m) == {Lookup(ExpArgOf, m[i], ExpArg(m[i])) : i \in 1..Len(m)}

\* 1 / (1 + np.exp(-10 * momentum.fillna(0))), lines 38 and 75, and the
\* arguments np.exp is given there
ProbUp(exp, momentum) == Sigmoid10Column(exp, FillNa0(momentum))
ExpArgs(momentum) == ExpArgsColumn(FillNa0(momentum))

\* df.loc[mask, "signal"] = value
LocAssign(col, mask, value) ==
    [i \in 1..Len(col) |-> IF mask[i] THEN value ELSE col[i]]

\* Faulty variant of Signal: the two assignments in the other order.
SignalSellFirst(prob_up, buy_thr, sell_thr) ==
    LocAssign(LocAssign([i \in 1..Len(prob_up) |-> 0],
                        [i \in 1..Len(prob_up) |-> Lt(prob_up[i], sell_thr)], -1),
              [i \in 1..Len(prob_up) |-> Gt(prob_up[i], buy_thr)], 1)

\* lines 40-42 and 77-79: signal = 0, then +1 where prob_up > buy_thr, then
\* -1 where prob_up < sell_thr.
Signal(prob_up, buy_thr, sell_thr) ==
    LocAssign(LocAssign([i \in 1..Len(prob_up) |-> 0],
                        [i \in 1..Len(prob_up) |-> Gt(prob_up[i], buy_thr)], 1),
              [i \in 1..Len(prob_up) |-> Lt(prob_up[i], sell_thr)], -1)

\* the int64 column as float64, as the product with a float column takes it
AsFloat(col) == [i \in 1..Len(col) |-> FromInt(col[i])]

\* the product of two columns, row by row
MulColumns(a, b) == [i \in 1..Len(a) |-> Mul(a[i], b[i])]

\* Faulty variant of StrategyReturn: the signal of the same row, no shift.
StrategyReturnNoLag(signal, ret) == MulColumns(AsFloat(signal), ret)

\* df["signal"].shift(1) * df["return"], lines 55 and 82
StrategyReturn(signal, ret) == MulColumns(Shift(AsFloat(signal), 1), ret)

\* Series.cumprod() and Series.cummax() (the columns they are applied to here
\* hold no NaN).
RECURSIVE CumProd(_)
CumProd(col) ==
    IF Len(col) = 0 THEN <<>>
    ELSE IF Len(col) = 1 THEN <<col[1]>>
    ELSE LET init == CumProd(SubSeq(col, 1, Len(col) - 1))
         IN Append(init, Mul(init[Len(init)], col[Len(col)]))

RECURSIVE CumMax(_)
CumMax(col) ==
    IF Len(col) = 0 THEN <<>>
    ELSE IF Len(col) = 1 THEN <<col[1]>>
    ELSE LET init == CumMax(SubSeq(col, 1, Len(col) - 1))
             m == init[Len(init)]
             x == col[Len(col)]
         IN Append(init, IF Gt(x, m) THEN x ELSE m)

\* Series.prod(): 1.0 for an empty series
RECURSIVE Prod(_)
Prod(col) == IF Len(col) = 0 THEN One ELSE Mul(Prod(SubSeq(col, 1, Len(col) - 1)), col[Len(col)])

\* The non-NaN values of a column, in order (skipna=True of max() and mean()).
RECURSIVE DropNa(_)
DropNa(col) ==
    IF Len(col) = 0 THEN <<>>
    ELSE LET init == DropNa(SubSeq(col, 1, Len(col) - 1))
             x == col[Len(col)]
         IN IF IsNaN(x) THEN init ELSE Append(init, x)

\* acc + col[i] + col[i + step] + ... up to index last, left to right
RECURSIVE SumFrom(_, _, _, _, _)
SumFrom(col, i, step, last, acc) ==
    IF i > last THEN acc ELSE SumFrom(col, i + step, step, last, Add(acc, col[i]))

\* r[lo+1] + ... + r[lo+n] for n a power of two, by halves:
\* ((r[1] + r[2]) + (r[3] + r[4])) + ((r[5] + r[6]) + (r[7] + r[8])) for n = 8
RECURSIVE SumHalves(_, _, _)
SumHalves(r, lo, n) ==
    IF n = 1 THEN r[lo + 1]
    ELSE Add(SumHalves(r, lo, n \div 2), SumHalves(r, lo + (n \div 2), n \div 2))

\* The eight partial sums of col[lo+1 .. lo+full], full a multiple of 8:
\* sum j takes the elements j, j + 8, j + 16, ...
Lanes(col, lo, full) == [j \in 1..8 |-> SumFrom(col, lo + j + 8, 8, lo + full, col[lo + j])]

\* The sum of col[lo+1 .. lo+n] in the order of numpy's add.reduce: left to
\* right below 8 elements (from -0.0, which leaves what is added as it is),
\* eight interleaved partial sums and the rest left to right up to 128,
\* halves above.
RECURSIVE PairwiseSum(_, _, _)
PairwiseSum(col, lo, n) ==
    IF n <= 128
    THEN SumFrom(col, lo + (n - (n % 8)) + 1, 1, lo + n,
                 IF n < 8 THEN NegZero ELSE SumHalves(Lanes(col, lo, n - (n % 8)), 0, 8))
    ELSE Add(PairwiseSum(col, lo, (n \div 2) - ((n \div 2) % 8)),
             PairwiseSum(col, lo + (n \div 2) - ((n \div 2) % 8),
                         n - ((n \div 2) - ((n \div 2) % 8))))

\* values.sum() of a float column without NaN: add.reduce starts from its
\* identity 0.0 and adds the pairwise sum, so an empty column and a column of
\* -0.0 alone both sum to 0.0
Sum(col) == Add(Zero, PairwiseSum(col, 0, Len(col)))

\* Series.max(): the greatest non-NaN value, NaN when there is none.
SeriesMax(col) ==
    LET v == DropNa(col)
    IN IF Len(v) = 0 THEN NaN ELSE CumMax(v)[Len(v)]

\* Series.mean(): the sum of the column with 0 in place of NaN, divided by
\* the number of non-NaN values; NaN when there is none.
SeriesMean(col) ==
    LET count == Len(DropNa(col))
    IN IF count = 0 THEN NaN ELSE Div(Sum(FillNa0(col)), FromInt(count))

\* 1 + col, row by row
OnePlus(col) == [i \in 1..Len(col) |-> Add(One, col[i])]

\* Faulty variant of Growth: the 1 + is missing.
GrowthNoOne(strategy_return) == FillNa0(strategy_return)

\* (1 + strategy_return.fillna(0)), lines 56 and 83
Growth(strategy_return) == OnePlus(FillNa0(strategy_return))

\* -------------------------------------------------------------- add_signals
\* The column assignments of lines 36, 37, 38 and 40-42 (74-81 in the tuner),
\* each on the frame the one before has left.
SetReturn(d) == Assign(d, "return", PctChange(d.price, 1))
SetMomentum(d, window) == Assign(d, "momentum", PctChange(d.price, window))
SetProbUp(exp, d) == Assign(d, "prob_up", ProbUp(exp, d.momentum))
SetSignal(d, buy_thr, sell_thr) == Assign(d, "signal", Signal(d.prob_up, buy_thr, sell_thr))

add_signals(exp, d, window, buy_thr, sell_thr) ==
    CopyThenAssign(d, SetSignal(SetProbUp(exp, SetMomentum(SetReturn(d), window)),
                                buy_thr, sell_thr))

\* ----------------------------------------------------------------- backtest
\* The rows of df[df["signal"] != 0], as a column of next_return values.
RECURSIVE TradesNextReturn(_, _)
TradesNextReturn(signal, next_return) ==
    IF Len(signal) = 0 THEN <<>>
    ELSE LET n == Len(signal)
             init == TradesNextReturn(SubSeq(signal, 1, n - 1), SubSeq(next_return, 1, n - 1))
         IN IF signal[n] # 0 THEN Append(init, next_return[n]) ELSE init

RECURSIVE CountWins(_)
CountWins(col) ==
    IF Len(col) = 0 THEN 0
    ELSE CountWins(SubSeq(col, 1, Len(col) - 1)) + (IF Gt(col[Len(col)], Zero) THEN 1 ELSE 0)

\* The column assignments of lines 48, 55 and 56 (82 in the tuner).
SetNextReturn(d) == Assign(d, "next_return", Shift(PctChange(d.price, 1), -1))
SetStrategyReturn(d) == Assign(d, "strategy_return", StrategyReturn(d.signal, d.return))
SetCumulative(d) == Assign(d, "cumulative", CumProd(Growth(d.strategy_return)))

\* lines 52 and 53, trades the next_return column of the trades
WinRate(trades) ==
    IF Len(trades) > 0 THEN Div(FromInt(CountWins(trades)), FromInt(Len(trades))) ELSE Zero
AvgReturn(trades) == IF Len(trades) > 0 THEN SeriesMean(trades) ELSE Zero

\* line 57, cummax the running maximum of cumulative
Drawdown(cumulative, cummax) ==
    [i \in 1..Len(cumulative) |-> Div(Sub(cummax[i], cumulative[i]), cummax[i])]
MaxDrawdown(cumulative) == SeriesMax(Drawdown(cumulative, CumMax(cumulative)))

\* lines 49-53 and 57-64 on the frame with the new columns
SummaryOf(trades, cumulative) ==
    [num_trades |-> Len(trades), win_rate |-> WinRate(trades),
     avg_return |-> AvgReturn(trades), max_dd |-> MaxDrawdown(cumulative)]
Summary(d) == SummaryOf(TradesNextReturn(d.signal, d.next_return), d.cumulative)

BacktestResult(d, out) ==
    [arg |-> CopyThenAssign(d, out).arg, ret |-> out, summary |-> Summary(out)]

backtest(d) == BacktestResult(d, SetCumulative(SetStrategyReturn(SetNextReturn(d))))

\* ---------------------------------------------------------- tune_parameters
\* itertools.product(window_range, buy_range, sell_range): combination k
\* (from 0), the last range varying fastest.
NumCombos(wr, br, sr) == Len(wr) * Len(br) * Len(sr)

Combo(wr, br, sr, k) ==
    [window |-> wr[(k \div (Len(br) * Len(sr))) + 1],
     buy_thr |-> br[((k \div Len(sr)) % Len(br)) + 1],
     sell_thr |-> sr[(k % Len(sr)) + 1]]

\* The body of the loop up to cum_return, lines 73-83.
TrialResult(d, temp) ==
    [arg |-> CopyThenAssign(d, temp).arg, temp_df |-> temp,
     cum_return |-> Prod(Growth(temp.strategy_return))]

Trial(exp, d, window, buy_thr, sell_thr) ==
    TrialResult(d, SetStrategyReturn(SetReturn(
                       SetSignal(SetProbUp(exp, SetMomentum(d, window)), buy_thr, sell_thr))))

\* Faulty variant of Better: >= in place of >.
BetterOrEqual(cum_return, best) == ~Gt(best, cum_return)

\* if cum_return > best_return, line 85
Better(cum_return, best) == Gt(cum_return, best)

\* ------------------------------------------------------------------- state
VARIABLES
    np_exp,        \* np.exp of the build, on the arguments it has been given
    df,            \* the base frame handed to the functions (column price)
    pc,            \* "idle", "tuning", "tuned", "annotated", "done", "error"
    window_range,  \* the three grids of the running tune_parameters call
    buy_range,
    sell_range,
    trial,         \* number of combinations the loop of line 72 has evaluated
    temp_df,       \* temp_df of the latest trial
    cum_return,    \* cum_return of the latest trial
    best_params,   \* Nil is None
    best_return,
    params,        \* arguments of the latest add_signals call, Nil if none
    out_df,        \* the frame add_signals returned, the argument of backtest
    bt_df,         \* the frame backtest returned
    summary        \* the summary backtest returned

vars == <<np_exp, df, pc, window_range, buy_range, sell_range, trial, temp_df, cum_return,
          best_params, best_return, params, out_df, bt_df, summary>>

tuner == <<window_range, buy_range, sell_range, trial, temp_df, cum_return,
           best_params, best_return>>

\* input series: 1..MaxLen prices
Series == UNION {[1..n -> Prices] : n \in 1..MaxLen}

\* The grids tune_parameters is called with: increasing sequences, as range
\* and np.arange produce, the empty one included.
WindowGrids == {<<>>, <<1>>, <<0, 1>>, <<1, 2>>, <<2, 3>>}
BuyGrids == {<<>>, <<ThreeQuarters>>, <<Half, ThreeQuarters>>, <<Quarter, Half>>}
SellGrids == {<<>>, <<Quarter>>, <<Quarter, Half>>, <<Half, ThreeQuarters>>}

SignalColumns(n) == [1..n -> {-1, 0, 1}]

Init ==
    /\ np_exp = <<>>
    /\ df \in {[price |-> p] : p \in Series}
    /\ pc = "idle"
    /\ window_range = <<>>
    /\ buy_range = <<>>
    /\ sell_range = <<>>
    /\ trial = 0
    /\ temp_df = Nil
    /\ cum_return = NaN
    /\ best_params = Nil
    /\ best_return = NegInf
    /\ params = Nil
    /\ out_df = Nil
    /\ bt_df = Nil
    /\ summary = Nil

\* tune_parameters is called (line 114, or directly with grids of the
\* caller's choice): lines 68-70.
TuneCall ==
    /\ pc = "idle"
    /\ pc' = "tuning"
    /\ window_range' \in WindowGrids
    /\ buy_range' \in BuyGrids
    /\ sell_range' \in SellGrids
    /\ trial' = 0
    /\ best_params' = Nil
    /\ best_return' = NegInf
    /\ UNCHANGED <<np_exp, df, temp_df, cum_return, params, out_df, bt_df, summary>>

\* lines 73-87 for the combination c, t the result of its trial
KeepBest(c, t) ==
    /\ df' = t.arg
    /\ temp_df' = t.temp_df
    /\ cum_return' = t.cum_return
    /\ IF Better(t.cum_return, best_return)
       THEN best_return' = t.cum_return /\ best_params' = c
       ELSE UNCHANGED <<best_return, best_params>>

\* the trial of c on a build whose np.exp is exp, t its result
TryCombo(c) ==
    \E exp \in Extend(np_exp, ExpArgs(PctChange(df.price, c.window))) :
       /\ np_exp' = exp
       /\ \E t \in {Trial(exp, df, c.window, c.buy_thr, c.sell_thr)} : KeepBest(c, t)

\* One pass of the loop of line 72: lines 73-87.
TuneTrial ==
    /\ pc = "tuning"
    /\ trial < NumCombos(window_range, buy_range, sell_range)
    /\ TryCombo(Combo(window_range, buy_range, sell_range, trial))
    /\ trial' = trial + 1
    /\ UNCHANGED <<pc, window_range, buy_range, sell_range, params, out_df, bt_df, summary>>

\* The product is exhausted: return best_params, best_return (line 89).
TuneReturn ==
    /\ pc = "tuning"
    /\ trial = NumCombos(window_range, buy_range, sell_range)
    /\ pc' = "tuned"
    /\ UNCHANGED <<np_exp, df, tuner, params, out_df, bt_df, summary>>

\* df = add_signals(df, **p): r is what the call returned
Annotate(p, r) ==
    /\ df' = r.arg
    /\ out_df' = r.ret
    /\ params' = p

\* add_signals(df, **p) on a build whose np.exp is exp, r what it returns
AddSignals(p) ==
    \E exp \in Extend(np_exp, ExpArgs(PctChange(df.price, p.window))) :
       /\ np_exp' = exp
       /\ \E r \in {add_signals(exp, df, p.window, p.buy_thr, p.sell_thr)} : Annotate(p, r)

\* Line 119 of the script: add_signals with the best parameters.  With
\* best_params None the subscript best_params["window"] raises TypeError.
ApplyBest ==
    /\ pc = "tuned"
    /\ IF best_params = Nil
       THEN /\ pc' = "error"
            /\ UNCHANGED <<np_exp, df, params, out_df>>
       ELSE /\ pc' = "annotated"
            /\ AddSignals(best_params)
    /\ UNCHANGED <<tuner, bt_df, summary>>

\* add_signals called with parameters of the caller's choice, lines 34-43.
AddSignalsCall ==
    /\ pc = "idle"
    /\ \E window \in Windows, buy_thr \in Thresholds, sell_thr \in Thresholds :
          AddSignals([window |-> window, buy_thr |-> buy_thr, sell_thr |-> sell_thr])
    /\ pc' = "annotated"
    /\ UNCHANGED <<tuner, bt_df, summary>>

\* summary, df = backtest(df): r is what the call returned
Report(r) ==
    /\ out_df' = r.arg
    /\ bt_df' = r.ret
    /\ summary' = r.summary

\* backtest on the frame add_signals returned (line 120), lines 46-65.
Backtest ==
    /\ pc = "annotated"
    /\ \E r \in {backtest(out_df)} : Report(r)
    /\ pc' = "done"
    /\ UNCHANGED <<np_exp, df, tuner, params>>

\* backtest called on a frame whose signal column the caller built, with
\* return = price.pct_change() as add_signals leaves it; lines 46-65.
BacktestCall ==
    /\ pc = "idle"
    /\ \E signal \in SignalColumns(Len(df.price)) :
          \E r \in {backtest(Assign(SetReturn([price |-> df.price]), "signal", signal))} :
             Report(r)
    /\ pc' = "done"
    /\ UNCHANGED <<np_exp, df, tuner, params>>

Next ==
    \/ TuneCall
    \/ TuneTrial
    \/ TuneReturn
    \/ ApplyBest
    \/ AddSignalsCall
    \/ Backtest
    \/ BacktestCall

Spec == Init /\ [][Next]_vars

\* ================================================================== claims
Annotated == pc \in {"annotated", "done"} /\ params # Nil
Tried == pc \in {"tuning", "tuned"} /\ trial > 0
LastCombo == Combo(window_range, buy_range, sell_range, trial - 1)

\* The signal rule in closed form.
Rule(p, buy_thr, sell_thr) == IF Lt(p, sell_thr) THEN -1 ELSE IF Gt(p, buy_thr) THEN 1 ELSE 0

\* C1: add_signals, and the inline computation of the tuner, give signal[i] =
\* -1 whenever prob_up[i] < sell_thr, otherwise +1 when prob_up[i] > buy_thr,
\* otherwise 0, for any thresholds (inverted ones included): the sell
\* assignment wins where both conditions hold.
C1_SignalRule ==
    /\ Annotated =>
          \A i \in 1..Len(out_df.price) :
             out_df.signal[i] = Rule(out_df.prob_up[i], params.buy_thr, params.sell_thr)
    /\ Tried =>
          \A i \in 1..Len(temp_df.price) :
             temp_df.signal[i] = Rule(temp_df.prob_up[i], LastCombo.buy_thr, LastCombo.sell_thr)

\* add_signals has run with inverted thresholds and a prob_up inside the
\* overlap, which got -1.
C1_Witness ==
    /\ Annotated
    /\ params.window >= 1
    /\ Lt(params.buy_thr, params.sell_thr)
    /\ \E i \in 1..Len(out_df.price) :
          /\ Gt(out_df.prob_up[i], params.buy_thr)
          /\ Lt(out_df.prob_up[i], params.sell_thr)
          /\ out_df.signal[i] = -1

\* C2: in backtest, strategy_return[i] = signal[i-1] * return[i] for every
\* row after the first, the first row has no strategy return and counts as
\* 0, and cumulative is the running product of (1 + strategy_return), so
\* cumulative of the first row is 1.
C2_LaggedReturn ==
    pc = "done" =>
       LET n == Len(bt_df.price)
       IN /\ IsNaN(bt_df.strategy_return[1])
          /\ bt_df.cumulative[1] = One
          /\ \A i \in 2..n :
                /\ bt_df.strategy_return[i] = Mul(FromInt(bt_df.signal[i - 1]), bt_df.return[i])
                /\ bt_df.cumulative[i] =
                      Mul(bt_df.cumulative[i - 1], Add(One, bt_df.strategy_return[i]))

\* backtest has run on a series where the lag matters: a row with a non-zero
\* return whose own signal differs from the signal of the row before.
C2_Witness ==
    /\ pc = "done"
    /\ \E i \in 2..Len(bt_df.price) :
          /\ ~IsZero(bt_df.return[i])
          /\ bt_df.signal[i - 1] # 0
          /\ bt_df.signal[i] # bt_df.signal[i - 1]
          /\ bt_df.cumulative[i] # bt_df.cumulative[i - 1]

\* The grid as index triples, in the order of the claim: window outer-most,
\* buy_thr next, sell_thr inner-most.
Triples == (1..Len(window_range)) \X (1..Len(buy_range)) \X (1..Len(sell_range))
Before(s, t) ==
    \/ s[1] < t[1]
    \/ s[1] = t[1] /\ s[2] < t[2]
    \/ s[1] = t[1] /\ s[2] = t[2] /\ s[3] < t[3]
ParamsAt(t) ==
    [window |-> window_range[t[1]], buy_thr |-> buy_range[t[2]], sell_thr |-> sell_range[t[3]]]
ValueAt(t) ==
    Trial(np_exp, [price |-> df.price], window_range[t[1]], buy_range[t[2]],
          sell_range[t[3]]).cum_return

\* C3: tune_parameters returns the combination with the greatest final
\* cumulative return over all combinations of the grid, and among several
\* with that value the one that comes first with window outer-most, buy_thr
\* next, sell_thr inner-most, so the result is a function of the series and
\* the grids.  (Nothing is returned as best only when the grid holds no
\* combination at all.)
C3_FirstMaximum ==
    pc = "tuned" =>
       LET v == [t \in Triples |-> ValueAt(t)]
       IN /\ \A s \in Triples : ~Gt(v[s], best_return)
          /\ best_params = Nil => Triples = {} /\ best_return = NegInf
          /\ best_params # Nil =>
                \E t \in Triples :
                   /\ best_params = ParamsAt(t)
                   /\ best_return = v[t]
                   /\ \A s \in Triples : Before(s, t) => Gt(v[t], v[s])

\* The tuner has returned from a grid where an earlier combination falls
\* short of the best by a rounding error only (its factors multiply to the
\* same real number) and a later combination ties with the best.
C3_Witness ==
    /\ pc = "tuned"
    /\ best_params # Nil
    /\ \E s, t \in Triples :
          /\ ParamsAt(t) = best_params
          /\ Before(s, t)
          /\ Gt(best_return, ValueAt(s))
          /\ Gt(FromRatio(1, 1000000), Sub(best_return, ValueAt(s)))
    /\ \E s \in Triples : ValueAt(s) = best_return /\ ParamsAt(s) # best_params

Range(g) == {g[i] : i \in 1..Len(g)}

\* C4: tune_parameters always returns a ParameterSet taken from the supplied
\* ranges, and add_signals with it followed by backtest ends on a cumulative
\* value equal to the best_return the tuner reported.
C4_RoundTrip ==
    /\ pc = "tuned" =>
          /\ best_params # Nil
          /\ best_params.window \in Range(window_range)
          /\ best_params.buy_thr \in Range(buy_range)
          /\ best_params.sell_thr \in Range(sell_range)
    /\ pc # "error"
    /\ (pc = "done" /\ best_params # Nil) =>
          bt_df.cumulative[Len(bt_df.cumulative)] = best_return

\* C5: a window < 1 and an empty grid are rejected before any computation:
\* add_signals returns no frame for window < 1, the tuner evaluates no trial
\* with window < 1 and returns no result for an empty range.
C5_RejectsInvalid ==
    /\ Annotated => params.window >= 1
    /\ Tried => LastCombo.window >= 1
    /\ pc = "tuned" => Triples # {}

\* C6: the summary of backtest holds only defined finite numbers: win_rate in
\* [0,1], avg_next_return the mean of next_return over the trades, both 0
\* without trades.
C6_SummaryDefined ==
    pc = "done" =>
       LET trades == TradesNextReturn(bt_df.signal, bt_df.next_return)
       IN /\ IsNum(summary.win_rate)
          /\ IsNum(summary.avg_return)
          /\ IsNum(summary.max_dd)
          /\ Ge(summary.win_rate, Zero) /\ Ge(One, summary.win_rate)
          /\ summary.num_trades = Len(trades)
          /\ summary.num_trades > 0 =>
                summary.avg_return = Div(Sum(trades), FromInt(Len(trades)))
          /\ summary.num_trades = 0 =>
                summary.win_rate = Zero /\ summary.avg_return = Zero

\* C7 as claimed: every element of cumulative, and the final cumulative
\* return of every trial of the tuner, is >= 0 whatever the returns.
C7_NonNegative ==
    /\ pc = "done" => \A i \in 1..Len(bt_df.cumulative) : Ge(bt_df.cumulative[i], Zero)
    /\ Tried => Ge(cum_return, Zero)

\* No row that follows a sell signal more than doubles the price.
NoShortWipeout(d) ==
    \A i \in 2..Len(d.price) : d.signal[i - 1] = -1 => Ge(Mul(FromInt(2), d.price[i - 1]), d.price[i])

\* C7 (amended): every element of cumulative, and the final cumulative
\* return of a trial, is >= 0 provided no row that follows a sell signal has
\* a return above 1.
C7_NonNegativeUnlessShortDoubles ==
    /\ (pc = "done" /\ NoShortWipeout(bt_df)) =>
          \A i \in 1..Len(bt_df.cumulative) : Ge(bt_df.cumulative[i], Zero)
    /\ (Tried /\ NoShortWipeout(temp_df)) => Ge(cum_return, Zero)

\* backtest has run on a series that more than doubles in a row not held
\* short and loses money in a row held short.
C7_Witness ==
    /\ pc = "done"
    /\ NoShortWipeout(bt_df)
    /\ \E i \in 2..Len(bt_df.price) : Gt(bt_df.price[i], Mul(FromInt(2), bt_df.price[i - 1]))
    /\ \E i \in 2..Len(bt_df.price) :
          bt_df.signal[i - 1] = -1 /\ Gt(bt_df.cumulative[i - 1], bt_df.cumulative[i])

\* C8: no step changes the base series, backtest leaves the frame it is
\* given without the columns it computes, and the result of each trial is
\* the one a fresh evaluation on the base prices gives for that trial's own
\* (window, buy_thr, sell_thr).
C8_BaseUntouched ==
    [][ /\ df' = df
        /\ (pc = "annotated" /\ pc' = "done") => out_df' = out_df
        /\ pc' = "done" => "cumulative" \notin DOMAIN out_df'
        /\ trial' = trial + 1 =>
              LET c == Combo(window_range, buy_range, sell_range, trial)
                  t == Trial(np_exp', [price |-> df.price], c.window, c.buy_thr, c.sell_thr)
              IN cum_return' = t.cum_return /\ temp_df' = t.temp_df ]_vars

\* Several trials have run and the base frame still has its price column only.
C8_Witness ==
    /\ pc = "tuning"
    /\ trial >= 3
    /\ DOMAIN df = {"price"}
    /\ DOMAIN temp_df # {"price"}

\* Rows i <= window of the model are the rows i < window of the frame.
Early(d, window) == {i \in 1..Len(d.price) : i <= window}

\* C9 as claimed: with window >= 1 every row i < window gets signal 0,
\* whatever the thresholds.
C9_EarlyZero ==
    (Annotated /\ params.window >= 1) =>
       \A i \in Early(out_df, params.window) : out_df.signal[i] = 0

\* C9 (amended): with window >= 1 (also window >= series length) add_signals
\* returns a frame in which every row i < window has prob_up = 0.5, hence
\* signal -1 when sell_thr > 0.5, otherwise +1 when buy_thr < 0.5, otherwise
\* 0.
C9_EarlyNeutral ==
    (Annotated /\ params.window >= 1) =>
       \A i \in Early(out_df, params.window) :
          /\ out_df.prob_up[i] = Half
          /\ out_df.signal[i] = (IF Gt(params.sell_thr, Half) THEN -1
                                 ELSE IF Lt(params.buy_thr, Half) THEN 1 ELSE 0)

\* add_signals has run with a window not below the series length and
\* thresholds around 0.5: every row is early and got 0.
C9_Witness ==
    /\ pc = "annotated"
    /\ params # Nil
    /\ params.window >= Len(out_df.price)
    /\ Len(out_df.price) >= 2
    /\ Ge(Half, params.sell_thr) /\ Ge(params.buy_thr, Half)
    /\ \A i \in 1..Len(out_df.price) : out_df.signal[i] = 0

NonDecreasing(col) == \A i \in 2..Len(col) : ~Gt(col[i - 1], col[i])

\* C10: the running maximum of cumulative is never 0 (it is a number > 0 in
\* every row), max_drawdown is a defined number >= 0, and it is 0 when
\* cumulative never decreases.
C10_DrawdownDefined ==
    pc = "done" =>
       LET cm == CumMax(bt_df.cumulative)
       IN /\ \A i \in 1..Len(cm) : IsNum(cm[i]) /\ Gt(cm[i], Zero)
          /\ IsNum(summary.max_dd)
          /\ Ge(summary.max_dd, Zero)
          /\ NonDecreasing(bt_df.cumulative) => summary.max_dd = Zero

\* backtest has run on a series whose cumulative fell below 0: the drawdown
\* is above 1 and still defined.
C10_Witness ==
    /\ pc = "done"
    /\ \E i \in 1..Len(bt_df.cumulative) : Lt(bt_df.cumulative[i], Zero)
    /\ Gt(summary.max_dd, One)
====
